---- MODULE Spec2Model ----
(***************************************************************************)
(* Model of shtab.py: the recursive traversal of an argparse parser that   *)
(* prints bash completion definitions (print_bash_commands), the assembly  *)
(* of the script (print_bash), the entry point (complete), and the         *)
(* dispatcher _dvc of the emitted script.                                  *)
(*                                                                         *)
(* A Python str is a sequence of one-character strings, so that replace,   *)
(* substring tests, join and lexicographic order are computed, not         *)
(* assumed.  A parser is the record                                        *)
(*   [optionals   : sequence of option_strings lists,                      *)
(*    positionals : sequence of [dest, choices]]                           *)
(* and choices is [kind, items]: kind "none" (choices=None), "dict" (items *)
(* a sequence of [name, parser] in insertion order, names distinct) or     *)
(* "list" (items a sequence of Choice markers [type, required]).           *)
(***************************************************************************)
EXTENDS Integers, Sequences, FiniteSets, TLC

VARIABLES parser, pc, shell, bash, sink, ret, exc, COMP_WORDS, reads

vars == <<parser, pc, shell, bash, sink, ret, exc, COMP_WORDS, reads>>

\* ------------------------------------------------------------------ bounds

\* Most add_argument / add_parser calls made on the whole tree before generation.
MaxItems == 3

\* ------------------------------------------------------------ Python strings

\* The characters of the model in code point order (str comparison is by code point).
CodePoints ==
    <<" ", "'", "-", "=", "C", "D", "E", "F", "G", "M", "N", "O", "P", "R", "U",
      "V", "_", "a", "b", "c", "d", "e", "f", "g", "h", "i", "l", "m", "n", "o",
      "p", "q", "r", "s", "t", "u", "v">>

ord(c) == CHOOSE i \in 1..Len(CodePoints) : CodePoints[i] = c

\* a < b for two str
RECURSIVE str_lt(_, _)
str_lt(a, b) ==
    IF b = <<>> THEN FALSE
    ELSE IF a = <<>> THEN TRUE
    ELSE IF Head(a) = Head(b) THEN str_lt(Tail(a), Tail(b))
    ELSE ord(Head(a)) < ord(Head(b))

\* sub in s, for two str
str_in(sub, s) ==
    \E i \in 0..Len(s) :
        /\ i + Len(sub) <= Len(s)
        /\ \A k \in 1..Len(sub) : s[i + k] = sub[k]

\* s.replace('-', '_')
replace_hyphen(s) == [i \in 1..Len(s) |-> IF s[i] = "-" THEN "_" ELSE s[i]]

\* " ".join(strs)
RECURSIVE join(_)
join(strs) ==
    IF strs = <<>> THEN <<>>
    ELSE IF Len(strs) = 1 THEN strs[1]
    ELSE strs[1] \o <<" ">> \o join(Tail(strs))

\* s.split(" ") for a str without leading, trailing or doubled spaces ('' gives no word)
RECURSIVE words_of(_, _, _)
words_of(s, i, cur) ==
    IF i > Len(s) THEN (IF cur = <<>> THEN <<>> ELSE <<cur>>)
    ELSE IF s[i] = " " THEN <<cur>> \o words_of(s, i + 1, <<>>)
    ELSE words_of(s, i + 1, Append(cur, s[i]))

\* sum(lists, [])
RECURSIVE sum_lists(_)
sum_lists(lists) ==
    IF lists = <<>> THEN <<>> ELSE Head(lists) \o sum_lists(Tail(lists))

elements(seq) == {seq[i] : i \in 1..Len(seq)}

\* ---------------------------------------------------------------- constants

GLOBAL_OPTIONS ==
    << <<"-", "h">>, <<"-", "-", "h", "e", "l", "p">>,
       <<"-", "q">>, <<"-", "-", "q", "u", "i", "e", "t">>,
       <<"-", "v">>, <<"-", "-", "v", "e", "r", "b", "o", "s", "e">> >>

ROOT_PREFIX == <<"_", "d", "v", "c">>

UNCOMPLETABLE_POSITIONALS ==
    { <<"r", "e", "v">>, <<"u", "r", "l">>, <<"a", "r", "g", "s">>,
      <<"n", "a", "m", "e">>, <<"o", "p", "t", "i", "o", "n">>,
      <<"v", "a", "l", "u", "e">>, <<"c", "o", "m", "m", "a", "n", "d">> }

TARGETS == { <<"t", "a", "r", "g", "e", "t", "s">>, <<"t", "a", "r", "g", "e", "t">> }

COMPGEN == <<"_", "C", "O", "M", "P", "G", "E", "N">>

compgen_files ==
    <<"_", "d", "v", "c", "_", "c", "o", "m", "p", "g", "e", "n", "_", "f", "i", "l", "e", "s">>

compgen_DVCFiles ==
    <<"_", "d", "v", "c", "_", "c", "o", "m", "p", "g", "e", "n", "_", "D", "V", "C",
      "F", "i", "l", "e", "s">>

\* ------------------------------------------------------------ Choice markers

Choice(choice_type, required) == [type |-> choice_type, required |-> required]

\* Choice.__cmp__(self, other): other is a str
Choice__cmp__(self, other) ==
    IF self.required THEN (IF other # <<>> THEN 0 ELSE -1) ELSE 0

\* Choice.__eq__(self, other)
Choice__eq__(self, other) == Choice__cmp__(self, other) = 0

Optional_FILE == [kind |-> "list", items |-> <<Choice("file", FALSE)>>]

Required_FILE == [kind |-> "list", items |-> <<Choice("file", TRUE)>>]

NoChoices == [kind |-> "none", items |-> <<>>]

\* bool(sub.choices)
truthy(choices) == choices.kind # "none" /\ choices.items # <<>>

\* ------------------------------------------------------- print_bash_commands

\* The elements of opts are tagged by their Python type: a str or a Choice marker.
Str(s) == [tag |-> "str", val |-> s]

Obj(c) == [tag |-> "Choice", val |-> c]

\* mutation: the choice strings are listed in sorted order
choice_opts_sorted(sub) ==
    IF sub.choices.kind = "dict"
    THEN LET names == SortSeq([k \in 1..Len(sub.choices.items) |-> sub.choices.items[k].name],
                              str_lt)
         IN  [k \in 1..Len(names) |-> [tag |-> "str", val |-> names[k]]]
    ELSE [k \in 1..Len(sub.choices.items) |-> [tag |-> "Choice", val |-> sub.choices.items[k]]]

\* [opt for opt in sub.choices]: iterating a dict gives its keys in insertion order
choice_opts(sub) ==
    IF sub.choices.kind = "dict"
    THEN [k \in 1..Len(sub.choices.items) |-> Str(sub.choices.items[k].name)]
    ELSE [k \in 1..Len(sub.choices.items) |-> Obj(sub.choices.items[k])]

\* [opt for sub in positionals if sub.choices for opt in sub.choices]
RECURSIVE positional_opts(_)
positional_opts(positionals) ==
    IF positionals = <<>> THEN <<>>
    ELSE (IF truthy(Head(positionals).choices) THEN choice_opts(Head(positionals)) ELSE <<>>)
         \o positional_opts(Tail(positionals))

\* sum((opt.option_strings for opt in parser._get_optional_actions()), [])
optional_opts(p) ==
    LET all == sum_lists(p.optionals) IN [k \in 1..Len(all) |-> Str(all[k])]

\* i in GLOBAL_OPTIONS: list containment by ==, which for a Choice is Choice.__eq__
in_GLOBAL_OPTIONS(i) ==
    \E k \in 1..Len(GLOBAL_OPTIONS) :
        IF i.tag = "Choice" THEN Choice__eq__(i.val, GLOBAL_OPTIONS[k])
        ELSE GLOBAL_OPTIONS[k] = i.val

\* mutation: the filter against GLOBAL_OPTIONS is dropped
keep_opt_unfiltered(i) == TRUE

keep_opt(i) == ~in_GLOBAL_OPTIONS(i)

\* opts = [i for i in opts if i not in GLOBAL_OPTIONS]
visible_opts(p) == SelectSeq(positional_opts(p.positionals) \o optional_opts(p), keep_opt)

\* print(f"{prefix}='{opts}'"), opts = " ".join(opts)
options_line(prefix, opts) ==
    prefix \o <<"=", "'">> \o join([k \in 1..Len(opts) |-> opts[k].val]) \o <<"'">>

\* mutation: the keys are taken in insertion order, not sorted
sorted_insertion(choices) ==
    IF choices.kind = "dict"
    THEN [k \in 1..Len(choices.items) |-> choices.items[k].name]
    ELSE choices.items

\* mutation: the keys are sorted in descending order
sorted_descending(choices) ==
    IF choices.kind = "dict"
    THEN SortSeq([k \in 1..Len(choices.items) |-> choices.items[k].name],
                 LAMBDA a, b : str_lt(b, a))
    ELSE choices.items

\* sorted(sub.choices): the keys of a dict in ascending order; a list of Choice
\* markers keeps its order (Choice.__lt__ is never true between two markers)
sorted(choices) ==
    IF choices.kind = "dict"
    THEN SortSeq([k \in 1..Len(choices.items) |-> choices.items[k].name], str_lt)
    ELSE choices.items

\* sub.choices[cmd] for a dict
lookup(choices, cmd) ==
    LET k == CHOOSE k \in 1..Len(choices.items) : choices.items[k].name = cmd
    IN  choices.items[k].parser

\* f"{prefix}_{cmd.replace('-', '_')}"
child_prefix(prefix, cmd) == prefix \o <<"_">> \o replace_hyphen(cmd)

\* mutation: dest is compared with the denylist entries by equality
completable_exact(dest) == dest \notin UNCOMPLETABLE_POSITIONALS

\* not any(i in sub.dest for i in UNCOMPLETABLE_POSITIONALS)
completable(dest) == ~\E i \in UNCOMPLETABLE_POSITIONALS : str_in(i, dest)

\* the completer named by the _COMPGEN line for a non-empty dest list
strategy(dest) ==
    IF TARGETS \cap elements(dest) = {} THEN compgen_files ELSE compgen_DVCFiles

\* print(f"{prefix}_COMPGEN=..."), or nothing when dest is empty
compgen_lines(prefix, dest, node) ==
    IF dest # <<>>
    THEN << [text |-> prefix \o COMPGEN \o <<"=">> \o strategy(dest),
             node |-> node, kind |-> "compgen"] >>
    ELSE <<>>

\* A line of the buffer carries, beside its text, the tree position (node: the
\* sequence of [pos, name] steps from the root) of the call that printed it.
\* The result of a call is [bash: the lines printed so far, commands, exc].
RECURSIVE print_bash_commands(_, _, _)
RECURSIVE for_positionals(_, _, _, _, _)
RECURSIVE for_cmds(_, _, _, _, _, _, _)

\* for cmd in sorted(sub.choices): commands.append(cmd); recurse
for_cmds(sub, cmds, j, prefix, node, i, acc) ==
    IF j > Len(cmds) THEN acc
    ELSE IF sub.choices.kind # "dict"
    THEN \* a list indexed by a Choice marker: TypeError
         [acc EXCEPT !.commands = Append(@, cmds[j]), !.exc = "TypeError"]
    ELSE LET cmd == cmds[j]
             r == print_bash_commands(lookup(sub.choices, cmd), child_prefix(prefix, cmd),
                                      Append(node, [pos |-> i, name |-> cmd]))
             next == [acc EXCEPT !.bash = @ \o r.bash, !.commands = Append(@, cmd),
                                 !.exc = r.exc]
         IN  IF r.exc # "none" THEN next
             ELSE for_cmds(sub, cmds, j + 1, prefix, node, i, next)

\* for sub in positionals: ...
for_positionals(positionals, i, prefix, node, acc) ==
    IF i > Len(positionals) THEN acc
    ELSE LET sub == positionals[i] IN
         IF truthy(sub.choices)
         THEN LET next == for_cmds(sub, sorted(sub.choices), 1, prefix, node, i, acc)
              IN  IF next.exc # "none" THEN next
                  ELSE for_positionals(positionals, i + 1, prefix, node, next)
         ELSE IF completable(sub.dest)
         THEN for_positionals(positionals, i + 1, prefix, node,
                              [acc EXCEPT !.dest = Append(@, sub.dest)])
         ELSE for_positionals(positionals, i + 1, prefix, node, acc)

\* mutation: the strategy line is printed before the loop over the positionals
print_bash_commands_strategy_first(p, prefix, node) ==
    LET opts == visible_opts(p)
        head == IF prefix = ROOT_PREFIX THEN <<>>
                ELSE << [text |-> options_line(prefix, opts), node |-> node, kind |-> "opts"] >>
        loop == for_positionals(p.positionals, 1, prefix, node,
                                [bash |-> <<>>, commands |-> <<>>, dest |-> <<>>, exc |-> "none"])
    IN  IF loop.exc # "none"
        THEN [bash |-> head \o loop.bash, commands |-> loop.commands, exc |-> loop.exc]
        ELSE [bash |-> head \o compgen_lines(prefix, loop.dest, node) \o loop.bash,
              commands |-> loop.commands, exc |-> "none"]

print_bash_commands(p, prefix, node) ==
    LET opts == visible_opts(p)
        head == IF prefix = ROOT_PREFIX THEN <<>>
                ELSE << [text |-> options_line(prefix, opts), node |-> node, kind |-> "opts"] >>
        loop == for_positionals(p.positionals, 1, prefix, node,
                                [bash |-> head, commands |-> <<>>, dest |-> <<>>, exc |-> "none"])
    IN  IF prefix # ROOT_PREFIX /\ \E k \in 1..Len(opts) : opts[k].tag # "str"
        THEN \* " ".join of a non-str item: TypeError before anything is printed
             [bash |-> <<>>, commands |-> <<>>, exc |-> "TypeError"]
        ELSE IF loop.exc # "none" THEN [bash |-> loop.bash, commands |-> loop.commands, exc |-> loop.exc]
        ELSE [bash |-> loop.bash \o compgen_lines(prefix, loop.dest, node),
              commands |-> loop.commands, exc |-> "none"]

\* ----------------------------------------------------------------- print_bash

\* The fixed text before the definitions and the fixed shell functions after them,
\* each kept as one opaque piece of text.
PREAMBLE == <<"shebang, provenance comment and references">>

FUNCTIONS == <<"shell functions and the complete builtin call">>

dvc_commands == <<"_", "d", "v", "c", "_", "c", "o", "m", "m", "a", "n", "d", "s">>

dvc_options == <<"_", "d", "v", "c", "_", "o", "p", "t", "i", "o", "n", "s">>

dvc_global_options ==
    <<"_", "d", "v", "c", "_", "g", "l", "o", "b", "a", "l", "_", "o", "p", "t", "i", "o", "n", "s">>

\* the text of the lines of the buffer: bash.getvalue()
getvalue(lines) == [k \in 1..Len(lines) |-> lines[k].text]

\* The argument of the single print of print_bash, as its sequence of lines.
script(commands, lines) ==
    LET quote(s) == <<"=", "'">> \o s \o <<"'">>
        version == <<"-", "h", " ", "-", "-", "h", "e", "l", "p", " ", "-", "V", " ",
                     "-", "-", "v", "e", "r", "s", "i", "o", "n">>
        l1 == dvc_commands \o quote(join(commands))
        l2 == dvc_options \o quote(version)
        l3 == dvc_global_options \o quote(join(GLOBAL_OPTIONS))
    IN  <<PREAMBLE, l1, l2, l3>> \o getvalue(lines) \o <<FUNCTIONS>>

\* mutation: the traversal prints to fd itself, line by line, and the rest follows
print_bash_unbuffered(p) ==
    LET r == print_bash_commands(p, ROOT_PREFIX, <<>>)
    IN  IF r.exc # "none"
        THEN [bash |-> r.bash, commands |-> r.commands,
              prints |-> [k \in 1..Len(r.bash) |-> <<r.bash[k].text>>], exc |-> r.exc]
        ELSE [bash |-> r.bash, commands |-> r.commands,
              prints |-> << script(r.commands, r.bash) >>, exc |-> "none"]

\* print_bash(parser, fd): [bash: the local buffer, prints: what is printed to fd, exc]
print_bash(p) ==
    LET r == print_bash_commands(p, ROOT_PREFIX, <<>>)
    IN  IF r.exc # "none"
        THEN [bash |-> r.bash, commands |-> r.commands, prints |-> <<>>, exc |-> r.exc]
        ELSE [bash |-> r.bash, commands |-> r.commands,
              prints |-> << script(r.commands, r.bash) >>, exc |-> "none"]

\* ------------------------------------------------- the parser handed to shtab

EmptyParser == [optionals |-> <<>>, positionals |-> <<>>]

\* option_strings of the optional arguments the caller declares
ForceStrings == << <<"-", "f">>, <<"-", "-", "f", "o", "r", "c", "e">> >>

HelpStrings == << <<"-", "h">>, <<"-", "-", "h", "e", "l", "p">> >>

OptionStrings == { ForceStrings, HelpStrings }

\* dest of the positionals the caller declares without choices
Dests ==
    { <<"t", "a", "r", "g", "e", "t", "s">>, <<"t", "a", "r", "g", "e", "t">>,
      <<"U", "R", "L">>, <<"r", "e", "v", "s">> }

\* names of the subcommands the caller declares
Names == { <<"a", "-", "b">>, <<"a", "_", "b">>, <<"-", "q">> }

\* the list-valued choices the module offers
Markers == { Optional_FILE, Required_FILE }

CmdDest == <<"c", "m", "d">>

\* number of declarations made on the tree
RECURSIVE items(_)
RECURSIVE items_of(_, _)
items_of(entries, k) ==
    IF k > Len(entries) THEN 0 ELSE 1 + items(entries[k].parser) + items_of(entries, k + 1)

RECURSIVE items_pos(_, _)
items_pos(positionals, i) ==
    IF i > Len(positionals) THEN 0
    ELSE (IF positionals[i].choices.kind = "dict" THEN items_of(positionals[i].choices.items, 1)
          ELSE 1)
         + items_pos(positionals, i + 1)

items(p) == Len(p.optionals) + items_pos(p.positionals, 1)

has_name(choices, name) == \E k \in 1..Len(choices.items) : choices.items[k].name = name

\* the parsers one declaration on p itself leads to
add_here(p, item) ==
    CASE item.op = "optional" ->
           IF item.strings \in elements(p.optionals) THEN {}
           ELSE { [p EXCEPT !.optionals = Append(@, item.strings)] }
      [] item.op = "positional" ->
           { [p EXCEPT !.positionals = Append(@, [dest |-> item.dest, choices |-> NoChoices])] }
      [] item.op = "choices" ->
           { [p EXCEPT !.positionals = Append(@, [dest |-> CmdDest, choices |-> item.marker])] }
      [] item.op = "parser" ->
           { [p EXCEPT !.positionals = Append(@,
                 [dest |-> CmdDest,
                  choices |-> [kind |-> "dict",
                               items |-> << [name |-> item.name, parser |-> EmptyParser] >>]])] }
           \cup
           { [p EXCEPT !.positionals[i].choices.items =
                          Append(@, [name |-> item.name, parser |-> EmptyParser])] :
               i \in { i \in 1..Len(p.positionals) :
                         /\ p.positionals[i].choices.kind = "dict"
                         /\ ~has_name(p.positionals[i].choices, item.name) } }

\* the parsers one declaration on p or on a parser below it leads to
RECURSIVE extensions(_, _)
extensions(p, item) ==
    add_here(p, item)
    \cup UNION { UNION { { [p EXCEPT !.positionals[i].choices.items[k].parser = c] :
                             c \in extensions(p.positionals[i].choices.items[k].parser, item) } :
                         k \in 1..Len(p.positionals[i].choices.items) } :
                 i \in { i \in 1..Len(p.positionals) : p.positionals[i].choices.kind = "dict" } }

\* ------------------------------------------------- the emitted shell functions

\* position of the first "=" of a line, 0 when there is none
first_eq(line) ==
    IF \E k \in 1..Len(line) : line[k] = "="
    THEN CHOOSE k \in 1..Len(line) : line[k] = "=" /\ \A m \in 1..(k - 1) : line[m] # "="
    ELSE 0

\* the variable a line NAME=VALUE assigns
assigned(line) == SubSeq(line, 1, first_eq(line) - 1)

\* the value a line NAME=VALUE or NAME='VALUE' assigns
value(line) ==
    LET v == SubSeq(line, first_eq(line) + 1, Len(line))
    IN  IF v # <<>> /\ Head(v) = "'" THEN SubSeq(v, 2, Len(v) - 1) ELSE v

\* ${!name} once the script is sourced: the last assignment wins, unset is empty
expand(lines, name) ==
    LET at == { k \in 1..Len(lines) : first_eq(lines[k]) > 0 /\ assigned(lines[k]) = name }
    IN  IF at = {} THEN <<>>
        ELSE value(lines[CHOOSE k \in at : \A m \in at : m <= k])

\* _dvc_replace_hyphen: echo $1 | sed 's/-/_/g'
dvc_replace_hyphen(w) == [i \in 1..Len(w) |-> IF w[i] = "-" THEN "_" ELSE w[i]]

\* _dvc_compgen_command $1: the variables it reads
dvc_compgen_command(w1) ==
    LET flags_list == ROOT_PREFIX \o <<"_">> \o dvc_replace_hyphen(w1)
        args_gen == flags_list \o COMPGEN
    IN  {dvc_global_options, flags_list, args_gen}

\* _dvc_compgen_subcommand $1 $2: the variables it reads.  more: whether the
\* completer named by args_gen prints any candidate (it lists the file system).
dvc_compgen_subcommand(lines, w1, w2, more) ==
    LET flags_list == ROOT_PREFIX \o <<"_">> \o dvc_replace_hyphen(w1)
                                  \o <<"_">> \o dvc_replace_hyphen(w2)
        args_gen == flags_list \o COMPGEN
        opts_more == expand(lines, args_gen) # <<>> /\ more
        opts == expand(lines, flags_list)
    IN  IF opts = <<>> /\ ~opts_more
        THEN {args_gen, flags_list} \cup dvc_compgen_command(w1)
        ELSE {args_gen, flags_list, dvc_global_options}

\* _dvc: COMP_WORDS is indexed from 0 in bash, from 1 here
dvc(lines, words, cword, more) ==
    LET word == words[cword + 1] IN
    IF cword = 1
    THEN (IF word # <<>> /\ Head(word) = "-" THEN {dvc_options} ELSE {dvc_commands})
    ELSE IF cword = 2 THEN dvc_compgen_command(words[2])
    ELSE IF cword >= 3 THEN dvc_compgen_subcommand(lines, words[2], words[3], more)
    ELSE {}

\* the sequences of subcommand names leading from p to a parser of its tree
RECURSIVE paths(_)
paths(p) ==
    {<<>>} \cup
    UNION { UNION { { <<p.positionals[i].choices.items[k].name>> \o q :
                        q \in paths(p.positionals[i].choices.items[k].parser) } :
                    k \in 1..Len(p.positionals[i].choices.items) } :
            i \in { i \in 1..Len(p.positionals) : p.positionals[i].choices.kind = "dict" } }

\* the word being completed
Typed == { <<>>, <<"-">> }

\* ------------------------------------------------------------------- actions

Init ==
    /\ parser = EmptyParser
    /\ pc = "build"
    /\ shell = ""
    /\ bash = <<>>
    /\ sink = <<>>
    /\ ret = <<>>
    /\ exc = "none"
    /\ COMP_WORDS = <<>>
    /\ reads = {}

\* the calls that build the parser stop at MaxItems declarations
building == pc = "build" /\ items(parser) < MaxItems

\* parser.add_argument("-x", "--xx") on a parser of the tree
add_optional ==
    /\ building
    /\ \E s \in OptionStrings : parser' \in extensions(parser, [op |-> "optional", strings |-> s])
    /\ UNCHANGED <<pc, shell, bash, sink, ret, exc, COMP_WORDS, reads>>

\* parser.add_argument("dest") on a parser of the tree
add_positional ==
    /\ building
    /\ \E d \in Dests : parser' \in extensions(parser, [op |-> "positional", dest |-> d])
    /\ UNCHANGED <<pc, shell, bash, sink, ret, exc, COMP_WORDS, reads>>

\* parser.add_argument("dest", choices=Optional.FILE) on a parser of the tree
add_choices ==
    /\ building
    /\ \E m \in Markers : parser' \in extensions(parser, [op |-> "choices", marker |-> m])
    /\ UNCHANGED <<pc, shell, bash, sink, ret, exc, COMP_WORDS, reads>>

\* a new entry name -> parser in a choices mapping of a parser of the tree
add_parser ==
    /\ building
    /\ \E n \in Names : parser' \in extensions(parser, [op |-> "parser", name |-> n])
    /\ UNCHANGED <<pc, shell, bash, sink, ret, exc, COMP_WORDS, reads>>

Shells == {"bash", "zsh"}

\* mutation: every shell kind is taken for bash
is_bash_always(sh) == TRUE

\* shell == "bash"
is_bash(sh) == sh = "bash"

\* complete(parser, shell): print_bash prints to the local output, whose value is returned
complete ==
    /\ pc = "build"
    /\ \E sh \in Shells :
        /\ shell' = sh
        /\ IF is_bash(sh)
           THEN LET r == print_bash(parser) IN
                /\ bash' = r.bash
                /\ sink' = r.prints
                /\ exc' = r.exc
                /\ ret' = IF r.exc = "none" THEN r.prints ELSE <<>>
           ELSE /\ bash' = <<>>
                /\ sink' = <<>>
                /\ exc' = "NotImplementedError"
                /\ ret' = <<>>
    /\ pc' = "called"
    /\ UNCHANGED <<parser, COMP_WORDS, reads>>

\* print_bash(parser, fd) called with the caller's own fd
print_bash_fd ==
    /\ pc = "build"
    /\ LET r == print_bash(parser) IN
        /\ bash' = r.bash
        /\ sink' = r.prints
        /\ exc' = r.exc
    /\ pc' = "printed"
    /\ UNCHANGED <<parser, shell, ret, COMP_WORDS, reads>>

\* the user presses TAB after typing the words of a path of the tree: bash calls
\* _dvc of the sourced script
tab ==
    /\ pc = "called"
    /\ ret # <<>>
    /\ \E q \in paths(parser), word \in Typed, more \in BOOLEAN :
        /\ COMP_WORDS' = <<"dvc">> \o q \o <<word>>
        /\ reads' = dvc(ret[1], COMP_WORDS', Len(q) + 1, more)
    /\ pc' = "completed"
    /\ UNCHANGED <<parser, shell, bash, sink, ret, exc>>

Next ==
    \/ add_optional
    \/ add_positional
    \/ add_choices
    \/ add_parser
    \/ complete
    \/ print_bash_fd

Spec == Init /\ [][Next]_vars

\* the same, followed by completions in a shell that has sourced the returned script
NextDispatch ==
    \/ add_optional
    \/ add_positional
    \/ add_choices
    \/ add_parser
    \/ complete
    \/ print_bash_fd
    \/ tab

SpecDispatch == Init /\ [][NextDispatch]_vars

\* ------------------------------------------------- vocabulary of the properties

\* the traversal has run on parser: bash, sink and exc are its outcome
Walked == pc = "printed" \/ (pc \in {"called", "completed"} /\ shell = "bash")

\* the tree positions of parser: sequences of [pos, name] steps from the root
RECURSIVE nodes(_)
nodes(p) ==
    {<<>>} \cup
    UNION { UNION { { <<[pos |-> i, name |-> p.positionals[i].choices.items[k].name]>> \o n :
                        n \in nodes(p.positionals[i].choices.items[k].parser) } :
                    k \in 1..Len(p.positionals[i].choices.items) } :
            i \in { i \in 1..Len(p.positionals) : p.positionals[i].choices.kind = "dict" } }

\* the parser at a tree position
RECURSIVE at(_, _)
at(p, n) ==
    IF n = <<>> THEN p
    ELSE at(lookup(p.positionals[Head(n).pos].choices, Head(n).name), Tail(n))

\* root token, then "_" and the hyphen-free name of each step
RECURSIVE identifier(_)
identifier(n) ==
    IF n = <<>> THEN <<"_", "d", "v", "c">>
    ELSE LET up == identifier(SubSeq(n, 1, Len(n) - 1))
             nm == n[Len(n)].name
         IN  up \o <<"_">> \o [k \in 1..Len(nm) |-> IF nm[k] = "-" THEN "_" ELSE nm[k]]

\* the positions in bash of the lines of one kind printed for a tree position
lines_of(n, kind) == { k \in 1..Len(bash) : bash[k].node = n /\ bash[k].kind = kind }

is_prefix(n, m) == Len(n) <= Len(m) /\ SubSeq(m, 1, Len(n)) = n

\* the positions in bash of the lines printed for a tree position and all below it
block(n) == { k \in 1..Len(bash) : is_prefix(n, bash[k].node) }

\* the names of the subcommands of a parser, over all its choices mappings
child_names(p) == positional_opts(p.positionals)

\* no parser of the tree has two subcommands of the same name
SiblingsUnique ==
    \A n \in nodes(parser) :
        LET c == child_names(at(parser, n))
        IN  \A i, j \in 1..Len(c) : i # j => c[i] # c[j]

\* C2: when sibling subcommand names are unique at every node, no two lines of the
\* walker output assign the same variable name and no two tree nodes get the same
\* identifier.
C2_IdentifiersUnique ==
    (Walked /\ exc = "none" /\ SiblingsUnique) =>
        /\ \A i, j \in 1..Len(bash) :
               i # j => assigned(bash[i].text) # assigned(bash[j].text)
        /\ \A n, m \in nodes(parser) : n # m => identifier(n) # identifier(m)

\* C3: the value of every options line holds none of the strings of GLOBAL_OPTIONS.
C3_NoGlobalOption ==
    Walked =>
        \A k \in 1..Len(bash) :
            bash[k].kind = "opts" =>
                \A w \in elements(words_of(value(bash[k].text), 1, <<>>)) :
                    w \notin elements(GLOBAL_OPTIONS)

\* a node below the root whose own declarations hold a global option string, both as
\* an option string and as a choice value, has had its options line printed
C3_Witness ==
    /\ Walked /\ exc = "none"
    /\ \E n \in nodes(parser) :
        /\ n # <<>>
        /\ lines_of(n, "opts") # {}
        /\ HelpStrings \in elements(at(parser, n).optionals)
        /\ \E c \in nodes(parser) :
               Len(c) = Len(n) + 1 /\ is_prefix(n, c) /\ c[Len(c)].name = <<"-", "q">>

\* the dest of the positionals without (non-empty) choices, in declared order
plain_names(p) ==
    LET plain == SelectSeq(p.positionals, LAMBDA sub : ~truthy(sub.choices))
    IN  [k \in 1..Len(plain) |-> plain[k].dest]

denied(name) ==
    \E d \in { <<"r", "e", "v">>, <<"u", "r", "l">>, <<"a", "r", "g", "s">>,
               <<"n", "a", "m", "e">>, <<"o", "p", "t", "i", "o", "n">>,
               <<"v", "a", "l", "u", "e">>, <<"c", "o", "m", "m", "a", "n", "d">> } :
        \E i \in 0..(Len(name) - Len(d)) : SubSeq(name, i + 1, i + Len(d)) = d

classification(names) ==
    IF \A k \in 1..Len(names) : denied(names[k]) THEN "NONE"
    ELSE IF \E k \in 1..Len(names) :
                names[k] \in { <<"t", "a", "r", "g", "e", "t">>,
                               <<"t", "a", "r", "g", "e", "t", "s">> }
    THEN "PROJECT_FILE"
    ELSE "GENERIC_PATH"

\* C4: every node gets no strategy line when it has no plain positional or each
\* plain positional name holds a denylist entry, the line naming
\* _dvc_compgen_DVCFiles when the names include target or targets, and the line
\* naming _dvc_compgen_files otherwise; never more than one.
C4_Classification ==
    (Walked /\ exc = "none") =>
        \A n \in nodes(parser) :
            LET names == plain_names(at(parser, n))
                got == lines_of(n, "compgen")
                class == classification(names)
            IN  /\ Cardinality(got) <= 1
                /\ class = "NONE" <=> got = {}
                /\ \A k \in got :
                    /\ assigned(bash[k].text) = identifier(n) \o COMPGEN
                    /\ class = "PROJECT_FILE" => value(bash[k].text) = compgen_DVCFiles
                    /\ class = "GENERIC_PATH" => value(bash[k].text) = compgen_files
                /\ (<<"t", "a", "r", "g", "e", "t", "s">> \in elements(names))
                       => \E k \in got : value(bash[k].text) = compgen_DVCFiles

\* a node below the root has the plain positionals revs (a denylist entry inside a
\* longer name) and targets
C4_Witness ==
    /\ Walked /\ exc = "none"
    /\ \E n \in nodes(parser) :
        /\ n # <<>>
        /\ plain_names(at(parser, n)) = << <<"r", "e", "v", "s">>, <<"t", "a", "r", "g", "e", "t", "s">> >>
        /\ lines_of(n, "compgen") # {}

\* C5: complete with a shell other than bash raises NotImplementedError, returns
\* no text and prints nothing, whatever the parser.
C5_UnsupportedShell ==
    (pc = "called" /\ shell # "bash") =>
        /\ exc = "NotImplementedError"
        /\ ret = <<>>
        /\ sink = <<>>
        /\ bash = <<>>

\* complete was called for zsh on a parser with subcommands
C5_Witness ==
    /\ pc = "called" /\ shell = "zsh"
    /\ Len(parser.positionals) > 0
    /\ nodes(parser) # {<<>>}

\* C6: a failed traversal leaves the caller's sink empty however many lines the
\* traversal had printed; a successful one prints the whole script to it at once.
C6_AllOrNothing ==
    Walked =>
        /\ exc # "none" => sink = <<>>
        /\ exc = "none" =>
            /\ Len(sink) = 1
            /\ Head(sink[1]) = PREAMBLE
            /\ sink[1][Len(sink[1])] = FUNCTIONS
            /\ SubSeq(sink[1], 5, Len(sink[1]) - 1) = [k \in 1..Len(bash) |-> bash[k].text]

\* the traversal failed on a list of Choice markers after printing lines of other nodes
C6_Witness ==
    /\ pc = "printed"
    /\ exc = "TypeError"
    /\ Len(bash) >= 2
    /\ sink = <<>>

\* the orders the entries of a choices mapping can have been inserted in
perms(entries) ==
    LET n == Len(entries)
        f == { f \in [1..n -> 1..n] : \A i, j \in 1..n : i # j => f[i] # f[j] }
    IN  { [k \in 1..n |-> entries[g[k]]] : g \in f }

\* parser with the entries of one choices mapping of one node inserted in another
\* order: the set of [node, parser], node the tree position of the changed mapping
RECURSIVE reorderings(_, _)
reorderings(p, n) ==
    LET dicts == { i \in 1..Len(p.positionals) : p.positionals[i].choices.kind = "dict" }
        here == UNION { { [node |-> n,
                           parser |-> [p EXCEPT !.positionals[i].choices.items = q]] :
                            q \in perms(p.positionals[i].choices.items) } : i \in dicts }
        below == UNION { UNION {
                   { [node |-> r.node,
                      parser |-> [p EXCEPT !.positionals[i].choices.items[k].parser = r.parser]] :
                       r \in reorderings(p.positionals[i].choices.items[k].parser,
                                         Append(n, [pos |-> i,
                                                    name |-> p.positionals[i].choices.items[k].name])) } :
                   k \in 1..Len(p.positionals[i].choices.items) } : i \in dicts }
    IN  here \cup below

\* the words of a line's value as a bag: the number of times each occurs
word_count(line, w) ==
    LET ws == words_of(value(line), 1, <<>>)
    IN  Cardinality({ k \in 1..Len(ws) : ws[k] = w })

same_words(l1, l2) ==
    LET ws == elements(words_of(value(l1), 1, <<>>)) \cup elements(words_of(value(l2), 1, <<>>))
    IN  \A w \in ws : word_count(l1, w) = word_count(l2, w)

\* C1 as stated: inserting the entries of any node's choices mapping in another
\* order leaves the outcome of complete(parser, "bash") unchanged.
C1_AnyDepth ==
    (pc = "called" /\ shell = "bash") =>
        \A r \in reorderings(parser, <<>>) :
            LET out == print_bash(r.parser)
            IN  out.prints = ret /\ out.exc = exc

\* C1 amended: another insertion order of the root's mapping leaves the script
\* unchanged; another insertion order of a mapping below the root changes at most
\* the options line of the node that holds the mapping, which assigns the same
\* variable and lists the same strings, and leaves every other line unchanged.
C1_RootOrderInvariant ==
    (pc = "called" /\ shell = "bash") =>
        \A r \in reorderings(parser, <<>>) :
            LET out == print_bash(r.parser) IN
            /\ out.exc = exc
            /\ r.node = <<>> => out.prints = ret
            /\ exc = "none" =>
                /\ Len(out.prints[1]) = Len(ret[1])
                /\ \A k \in 1..Len(ret[1]) :
                    \/ out.prints[1][k] = ret[1][k]
                    \/ /\ k > 4 /\ k < Len(ret[1])
                       /\ bash[k - 4].node = r.node
                       /\ bash[k - 4].kind = "opts"
                       /\ assigned(out.prints[1][k]) = assigned(ret[1][k])
                       /\ same_words(out.prints[1][k], ret[1][k])

\* complete returned the script of a parser whose root mapping has two entries
\* inserted in descending order of their names
C1_Witness ==
    /\ pc = "called" /\ shell = "bash" /\ exc = "none"
    /\ \E i \in 1..Len(parser.positionals) :
        /\ parser.positionals[i].choices.kind = "dict"
        /\ Len(parser.positionals[i].choices.items) >= 2
        /\ str_lt(parser.positionals[i].choices.items[2].name,
                  parser.positionals[i].choices.items[1].name)

\* the commands a call of print_bash_commands on a tree position returns
commands_of(n) == print_bash_commands(at(parser, n), identifier(n), n).commands

ascending(names) == \A i, j \in 1..Len(names) : i < j => ~str_lt(names[j], names[i])

\* the positionals of a parser that have non-empty choices
dispatching(p) == { i \in 1..Len(p.positionals) : truthy(p.positionals[i].choices) }

\* C7 as stated: the commands returned for every node, whatever the number of its
\* choice-bearing positionals, are in ascending order, and so are the names in
\* the _dvc_commands variable.
C7_SortedAnyNumber ==
    (Walked /\ exc = "none") =>
        /\ \A n \in nodes(parser) : ascending(commands_of(n))
        /\ Len(sink) = 1 => ascending(words_of(value(sink[1][2]), 1, <<>>))

\* the names of the entries of positional i of p, in ascending order
RECURSIVE ascending_names(_)
ascending_names(names) ==
    IF names = {} THEN <<>>
    ELSE LET least == CHOOSE a \in names : \A b \in names : ~str_lt(b, a)
         IN  <<least>> \o ascending_names(names \ {least})

RECURSIVE by_positional(_, _)
by_positional(p, i) ==
    IF i > Len(p.positionals) THEN <<>>
    ELSE (IF truthy(p.positionals[i].choices)
          THEN ascending_names({ p.positionals[i].choices.items[k].name :
                                   k \in 1..Len(p.positionals[i].choices.items) })
          ELSE <<>>)
         \o by_positional(p, i + 1)

\* C7 amended: the commands returned for a node are the names of its choice-bearing
\* positionals taken positional by positional in declared order, ascending within
\* each positional; they are in ascending order when the node has at most one
\* choice-bearing positional, and _dvc_commands lists the root's commands.
C7_SortedPerPositional ==
    (Walked /\ exc = "none") =>
        /\ \A n \in nodes(parser) :
            /\ commands_of(n) = by_positional(at(parser, n), 1)
            /\ Cardinality(dispatching(at(parser, n))) <= 1 => ascending(commands_of(n))
        /\ Len(sink) = 1 => words_of(value(sink[1][2]), 1, <<>>) = commands_of(<<>>)

\* the script was printed for a tree in which a node below the root has one mapping
\* with two entries inserted in descending order of their names
C7_Witness ==
    /\ Walked /\ exc = "none" /\ Len(sink) = 1
    /\ \E n \in nodes(parser) :
        /\ n # <<>>
        /\ Cardinality(dispatching(at(parser, n))) = 1
        /\ \E i \in dispatching(at(parser, n)) :
            LET entries == at(parser, n).positionals[i].choices.items
            IN  Len(entries) = 2 /\ str_lt(entries[2].name, entries[1].name)

\* the names along a tree position: the command words that lead to it
names_of(n) == [k \in 1..Len(n) |-> n[k].name]

\* C8: when the typed words w1..wk name a path from the root to a node, _dvc,
\* completing the word after wk, reads the options variable and the _COMPGEN
\* variable named by the identifier the walker printed for that node.
C8_DispatcherReadsNode ==
    pc = "completed" =>
        \A n \in nodes(parser) :
            (n # <<>> /\ names_of(n) = SubSeq(COMP_WORDS, 2, Len(COMP_WORDS) - 1)) =>
                \A k \in lines_of(n, "opts") :
                    /\ assigned(bash[k].text) \in reads
                    /\ assigned(bash[k].text) \o COMPGEN \in reads

\* the children of a tree position
children(n) == { c \in nodes(parser) : Len(c) = Len(n) + 1 /\ is_prefix(n, c) }

contiguous(ks) == \A i, j \in ks : \A k \in i..j : k \in ks

\* what C9 says of the lines of N and of the blocks of its children, but for the
\* order of the blocks
C9_Framing(n) ==
    /\ \A o \in lines_of(n, "opts") : \A k \in block(n) \ {o} : o < k
    /\ \A g \in lines_of(n, "compgen") : \A k \in block(n) \ {g} : k < g
    /\ \A c \in children(n) : block(c) # {} /\ contiguous(block(c))

\* C9 as stated: for every node N below the root, the options line of N comes
\* before every other line of N and its descendants, the strategy line of N after
\* them, and the blocks of N's children are contiguous and in ascending order of
\* the children's names.
C9_ChildrenByName ==
    (Walked /\ exc = "none") =>
        \A n \in nodes(parser) :
            n # <<>> =>
                /\ C9_Framing(n)
                /\ \A c, d \in children(n) :
                       str_lt(c[Len(c)].name, d[Len(d)].name) =>
                           \A i \in block(c), j \in block(d) : i < j

\* C9 amended: the blocks of N's children are ordered by the declared order of the
\* choice-bearing positional each child belongs to, and by ascending name among the
\* children of one positional; the rest as stated.
C9_ChildrenByPositionalThenName ==
    (Walked /\ exc = "none") =>
        \A n \in nodes(parser) :
            n # <<>> =>
                /\ C9_Framing(n)
                /\ \A c, d \in children(n) :
                       (\/ c[Len(c)].pos < d[Len(d)].pos
                        \/ /\ c[Len(c)].pos = d[Len(d)].pos
                           /\ str_lt(c[Len(c)].name, d[Len(d)].name)) =>
                           \A i \in block(c), j \in block(d) : i < j

\* a node below the root has had its options line, the block of a child and its
\* strategy line printed
C9_Witness ==
    /\ Walked /\ exc = "none"
    /\ \E n \in nodes(parser) :
        /\ n # <<>>
        /\ lines_of(n, "opts") # {}
        /\ lines_of(n, "compgen") # {}
        /\ children(n) # {}

\* the strings of a node's options line as C10 states them
declared_opts(p) ==
    LET dicts == SelectSeq(p.positionals, LAMBDA sub : truthy(sub.choices) /\ sub.choices.kind = "dict")
        names(sub) == [k \in 1..Len(sub.choices.items) |-> sub.choices.items[k].name]
        flat(seqs) == sum_lists(seqs)
        all == flat([i \in 1..Len(dicts) |-> names(dicts[i])]) \o flat(p.optionals)
    IN  SelectSeq(all, LAMBDA o : \A g \in 1..Len(GLOBAL_OPTIONS) : GLOBAL_OPTIONS[g] # o)

\* C10: no options line is printed for the root; for every other node exactly one
\* is, which assigns the node's identifier the choice strings of the choice-bearing
\* positionals in declared order, then the option strings in declared order, the
\* global options removed and duplicates kept, joined by spaces.
C10_OptionsLine ==
    (Walked /\ exc = "none") =>
        \A n \in nodes(parser) :
            IF n = <<>> THEN lines_of(n, "opts") = {}
            ELSE /\ Cardinality(lines_of(n, "opts")) = 1
                 /\ \A k \in lines_of(n, "opts") :
                     /\ assigned(bash[k].text) = identifier(n)
                     /\ bash[k].text[first_eq(bash[k].text) + 1] = "'"
                     /\ bash[k].text[Len(bash[k].text)] = "'"
                     /\ words_of(value(bash[k].text), 1, <<>>) = declared_opts(at(parser, n))

\* a node below the root whose mapping has two entries inserted in descending order
\* of their names has had its options line printed
C10_Witness ==
    /\ Walked /\ exc = "none"
    /\ \E n \in nodes(parser) :
        /\ n # <<>>
        /\ lines_of(n, "opts") # {}
        /\ Len(child_names(at(parser, n))) = 2
        /\ str_lt(child_names(at(parser, n))[2].val, child_names(at(parser, n))[1].val)

====
